---- MODULE Spec2Model ----
(***************************************************************************)
(* serializeTransaction (src/src/utils/transaction/serializeTransaction.ts) *)
(* as a state machine: a call is given a transaction record and an optional *)
(* signature, is dispatched on the transaction type and runs one of the     *)
(* four variant encoders, which either returns the serialized bytes or      *)
(* throws.                                                                  *)
(*                                                                          *)
(* Values.  An optional value is <<>> (undefined) or <<x>> (x).  A Hex      *)
(* string is a sequence of bytes ('0x' is the empty sequence).  An element  *)
(* handed to toRlp is [kind |-> "hex", val |-> bytes] or                    *)
(* [kind |-> "list", val |-> elements].                                     *)
(***************************************************************************)
EXTENDS Integers, Sequences, FiniteSets, TLC

VARIABLES
    transaction,            \* the record passed to serializeTransaction
    signature,              \* the optional signature argument
    rangesOk,               \* verdict of the assertion's numeric range checks on the record
    pc,                     \* position of the call
    type,                   \* const type = getTransactionType(transaction)
    v,                      \* const v of serializeTransactionLegacy (optional)
    serializedTransaction,  \* the field list built by the encoder
    rlpInput,               \* the argument handed to toRlp (optional)
    result,                 \* the returned bytes (optional)
    error                   \* the error thrown, if any

vars == <<transaction, signature, rangesOk, pc, type, v,
          serializedTransaction, rlpInput, result, error>>

----------------------------------------------------------------------------
\* Bounds of the inputs

MaxChainId == 2
MaxSigV == 38

----------------------------------------------------------------------------
\* Optional values and Hex strings

Undefined == <<>>
Def(x) == <<x>>
Val(o) == o[1]

\* JavaScript truthiness of an optional number: `x ? a : b`
Truthy(o) == o # Undefined /\ Val(o) # 0

Hex(bytes) == [kind |-> "hex", val |-> bytes]
List(items) == [kind |-> "list", val |-> items]
Empty == Hex(<<>>)

RECURSIVE ToBytes(_)
ToBytes(n) == IF n = 0 THEN <<>> ELSE Append(ToBytes(n \div 256), n % 256)

\* toHex(number | bigint): minimal big-endian bytes, zero is the empty placeholder
toHex(n) == Hex(ToBytes(n))

RECURSIVE StripZeros(_)
StripZeros(bytes) ==
    IF bytes # <<>> /\ Head(bytes) = 0 THEN StripZeros(Tail(bytes)) ELSE bytes

\* trim(hex): leading zero bytes removed
trim(bytes) == Hex(StripZeros(bytes))


----------------------------------------------------------------------------
\* External collaborators (contracts of section 6 of the specification)

RECURSIVE toRlpBytes(_)
RECURSIVE RlpConcat(_)

\* length prefix of RLP: short form up to 55 bytes, long form above
RlpLength(len, offset) ==
    IF len <= 55
    THEN <<offset + len>>
    ELSE <<offset + 55 + Len(ToBytes(len))>> \o ToBytes(len)

RlpConcat(items) ==
    IF items = <<>> THEN <<>>
    ELSE toRlpBytes(Head(items)) \o RlpConcat(Tail(items))

toRlpBytes(item) ==
    IF item.kind = "hex"
    THEN IF Len(item.val) = 1 /\ item.val[1] < 128
         THEN item.val
         ELSE RlpLength(Len(item.val), 128) \o item.val
    ELSE LET payload == RlpConcat(item.val)
         IN  RlpLength(Len(payload), 192) \o payload

\* toRlp(bytes | list): the length-prefixed encoding, as bytes
toRlp(item) == toRlpBytes(item)

\* concatHex([marker, encoded])
concatHex(marker, encoded) == <<marker>> \o encoded

HexList(seq) == List([i \in 1..Len(seq) |-> Hex(seq[i])])

\* serializeAccessList(accessList): [[address, [storageKey, ...]], ...]
serializeAccessList(accessList) ==
    IF accessList = Undefined THEN List(<<>>)
    ELSE List([i \in 1..Len(Val(accessList)) |->
                List(<<Hex(Val(accessList)[i].address),
                       HexList(Val(accessList)[i].storageKeys)>>)])

\* getTransactionType(transaction): the explicit tag, else inferred in the
\* priority blob > priority-fee > access-list > legacy
getTransactionType(tx) ==
    IF tx.type # Undefined THEN Val(tx.type)
    ELSE IF \/ tx.blobs # Undefined
            \/ tx.blobVersionedHashes # Undefined
            \/ tx.maxFeePerBlobGas # Undefined
         THEN "eip4844"
    ELSE IF tx.maxFeePerGas # Undefined \/ tx.maxPriorityFeePerGas # Undefined
         THEN "eip1559"
    ELSE IF tx.accessList # Undefined \/ tx.chainId # Undefined
         THEN "eip2930"
    ELSE "legacy"

\* The per-variant assertions: required-field presence and numeric ranges
assertTransactionLegacy(tx, ranges) == ranges
assertTransactionEIP2930(tx, ranges) == tx.chainId # Undefined /\ ranges
assertTransactionEIP1559(tx, ranges) == tx.chainId # Undefined /\ ranges
assertTransactionEIP4844(tx, ranges) ==
    tx.chainId # Undefined /\ tx.blobVersionedHashes # Undefined /\ ranges

----------------------------------------------------------------------------
\* Errors

NoError == [name |-> "none", v |-> Undefined]
AssertionError(variant) == [name |-> "AssertTransactionError:" \o variant, v |-> Undefined]
InvalidLegacyVError(sigV) == [name |-> "InvalidLegacyVError", v |-> Def(sigV)]

----------------------------------------------------------------------------
\* The signature tail of the typed variants

\* const yParity_ = (() => { ... })()
YParityField(v_, yParity) ==
    IF yParity # Undefined THEN toHex(Val(yParity))
    ELSE IF v_ = Def(0) THEN Empty
    ELSE IF v_ = Def(1) THEN toHex(1)
    ELSE IF v_ = Def(27) THEN Empty ELSE toHex(1)

\* SignatureSource filling each field the signature lacks from the record
SignatureSource_Mixed(tx, sig) ==
    IF sig = Undefined THEN tx
    ELSE [r |-> IF Val(sig).r # Undefined THEN Val(sig).r ELSE tx.r,
          s |-> IF Val(sig).s # Undefined THEN Val(sig).s ELSE tx.s,
          v |-> IF Val(sig).v # Undefined THEN Val(sig).v ELSE tx.v,
          yParity |-> IF Val(sig).yParity # Undefined
                      THEN Val(sig).yParity ELSE tx.yParity]

\* const { r, s, v, yParity } = signature ?? transaction
SignatureSource(tx, sig) == IF sig # Undefined THEN Val(sig) ELSE tx

toYParitySignatureArray(tx, sig) ==
    LET src == SignatureSource(tx, sig)
    IN  IF src.r = Undefined THEN <<>>
        ELSE IF src.s = Undefined THEN <<>>
        ELSE IF src.v = Undefined /\ src.yParity = Undefined THEN <<>>
        ELSE <<YParityField(src.v, src.yParity), trim(Val(src.r)), trim(Val(src.s))>>

----------------------------------------------------------------------------
\* Field lists

OrEmpty(num) == IF Truthy(num) THEN toHex(Val(num)) ELSE Empty
HexOrEmpty(bytes) == IF bytes # Undefined THEN Hex(Val(bytes)) ELSE Empty

FieldsEIP4844(tx, sig) ==
    << toHex(Val(tx.chainId)),
       OrEmpty(tx.nonce),
       OrEmpty(tx.maxPriorityFeePerGas),
       OrEmpty(tx.maxFeePerGas),
       OrEmpty(tx.gas),
       HexOrEmpty(tx.to),
       OrEmpty(tx.value),
       HexOrEmpty(tx.data),
       serializeAccessList(tx.accessList),
       OrEmpty(tx.maxFeePerBlobGas),
       HexList(Val(tx.blobVersionedHashes)) >>
    \o toYParitySignatureArray(tx, sig)

FieldsEIP1559(tx, sig) ==
    << toHex(Val(tx.chainId)),
       OrEmpty(tx.nonce),
       OrEmpty(tx.maxPriorityFeePerGas),
       OrEmpty(tx.maxFeePerGas),
       OrEmpty(tx.gas),
       HexOrEmpty(tx.to),
       OrEmpty(tx.value),
       HexOrEmpty(tx.data),
       serializeAccessList(tx.accessList) >>
    \o toYParitySignatureArray(tx, sig)

FieldsEIP2930(tx, sig) ==
    << toHex(Val(tx.chainId)),
       OrEmpty(tx.nonce),
       OrEmpty(tx.gasPrice),
       OrEmpty(tx.gas),
       HexOrEmpty(tx.to),
       OrEmpty(tx.value),
       HexOrEmpty(tx.data),
       serializeAccessList(tx.accessList) >>
    \o toYParitySignatureArray(tx, sig)

\* BaseFieldsLegacy with gasPrice and gas exchanged
BaseFieldsLegacy_Swapped(tx) ==
    << OrEmpty(tx.nonce),
       OrEmpty(tx.gas),
       OrEmpty(tx.gasPrice),
       HexOrEmpty(tx.to),
       OrEmpty(tx.value),
       HexOrEmpty(tx.data) >>

BaseFieldsLegacy(tx) ==
    << OrEmpty(tx.nonce),
       OrEmpty(tx.gasPrice),
       OrEmpty(tx.gas),
       HexOrEmpty(tx.to),
       OrEmpty(tx.value),
       HexOrEmpty(tx.data) >>

\* const { chainId = 0, ... } = transaction
LegacyChainId(tx) == IF tx.chainId = Undefined THEN 0 ELSE Val(tx.chainId)

\* LegacyV with the inferred-chain-id rule tried before the explicit chain id
LegacyV_InferFirst(chainId, sigV) ==
    IF sigV >= 35
    THEN LET inferredChainId == (sigV - 35) \div 2
         IN  IF inferredChainId > 0
             THEN [threw |-> FALSE, v |-> sigV]
             ELSE [threw |-> FALSE, v |-> 27 + (IF sigV = 35 THEN 0 ELSE 1)]
    ELSE IF chainId > 0
    THEN [threw |-> FALSE, v |-> (chainId * 2) + (35 + sigV - 27)]
    ELSE LET v_ == 27 + (IF sigV = 27 THEN 0 ELSE 1)
         IN  IF sigV # v_
             THEN [threw |-> TRUE, v |-> sigV]
             ELSE [threw |-> FALSE, v |-> v_]

\* LegacyV with an inferred chain id of 0 not collapsed to 27 / 28
LegacyV_NoCollapse(chainId, sigV) ==
    IF chainId > 0
    THEN [threw |-> FALSE, v |-> (chainId * 2) + (35 + sigV - 27)]
    ELSE IF sigV >= 35
    THEN [threw |-> FALSE, v |-> sigV]
    ELSE LET v_ == 27 + (IF sigV = 27 THEN 0 ELSE 1)
         IN  IF sigV # v_
             THEN [threw |-> TRUE, v |-> sigV]
             ELSE [threw |-> FALSE, v |-> v_]

\* LegacyV normalising every pre-EIP-155 value to 27 / 28 without the check
LegacyV_NoThrow(chainId, sigV) ==
    IF chainId > 0
    THEN [threw |-> FALSE, v |-> (chainId * 2) + (35 + sigV - 27)]
    ELSE IF sigV >= 35
    THEN LET inferredChainId == (sigV - 35) \div 2
         IN  IF inferredChainId > 0
             THEN [threw |-> FALSE, v |-> sigV]
             ELSE [threw |-> FALSE, v |-> 27 + (IF sigV = 35 THEN 0 ELSE 1)]
    ELSE [threw |-> FALSE, v |-> 27 + (IF sigV = 27 THEN 0 ELSE 1)]

\* const v = (() => { ... })() of serializeTransactionLegacy
LegacyV(chainId, sigV) ==
    IF chainId > 0
    THEN [threw |-> FALSE, v |-> (chainId * 2) + (35 + sigV - 27)]
    ELSE IF sigV >= 35
    THEN LET inferredChainId == (sigV - 35) \div 2
         IN  IF inferredChainId > 0
             THEN [threw |-> FALSE, v |-> sigV]
             ELSE [threw |-> FALSE, v |-> 27 + (IF sigV = 35 THEN 0 ELSE 1)]
    ELSE LET v_ == 27 + (IF sigV = 27 THEN 0 ELSE 1)
         IN  IF sigV # v_
             THEN [threw |-> TRUE, v |-> sigV]
             ELSE [threw |-> FALSE, v |-> v_]

\* LegacyTail appending the chain id triple whenever there is no signature
LegacyTail_AlwaysChainId(chainId, sig, v_) ==
    IF sig # Undefined
    THEN <<toHex(v_), Hex(Val(Val(sig).r)), Hex(Val(Val(sig).s))>>
    ELSE <<toHex(chainId), Empty, Empty>>

\* the tail appended to the six base fields of a legacy transaction
LegacyTail(chainId, sig, v_) ==
    IF sig # Undefined
    THEN <<toHex(v_), Hex(Val(Val(sig).r)), Hex(Val(Val(sig).s))>>
    ELSE IF chainId > 0
    THEN <<toHex(chainId), Empty, Empty>>
    ELSE <<>>

----------------------------------------------------------------------------
\* The variant encoders, as functions of (transaction, signature, ranges):
\* what they throw or return, with the locals they built

Threw(err, fields) ==
    [error |-> err, v |-> Undefined, fields |-> fields,
     rlpInput |-> Undefined, result |-> Undefined]

Returned(v_, fields, input, bytes) ==
    [error |-> NoError, v |-> v_, fields |-> fields,
     rlpInput |-> Def(input), result |-> Def(bytes)]

\* BlobRlpInput with the commitments ahead of the blobs
BlobRlpInput_Reordered(tx, fields) ==
    IF tx.blobs # Undefined
    THEN List(<<List(fields), HexList(Val(tx.kzgCommitments)),
                HexList(Val(tx.blobs)), HexList(Val(tx.kzgProofs))>>)
    ELSE List(fields)

\* blobs ? toRlp([serializedTransaction, blobs, kzgCommitments, kzgProofs])
\*       : toRlp(serializedTransaction)
BlobRlpInput(tx, fields) ==
    IF tx.blobs # Undefined
    THEN List(<<List(fields), HexList(Val(tx.blobs)),
                HexList(Val(tx.kzgCommitments)), HexList(Val(tx.kzgProofs))>>)
    ELSE List(fields)

serializeTransactionEIP4844(tx, sig, ranges) ==
    IF ~assertTransactionEIP4844(tx, ranges)
    THEN Threw(AssertionError("EIP4844"), <<>>)
    ELSE LET fields == FieldsEIP4844(tx, sig)
             input == BlobRlpInput(tx, fields)
         IN  Returned(Undefined, fields, input, concatHex(3, toRlp(input)))

serializeTransactionEIP1559(tx, sig, ranges) ==
    IF ~assertTransactionEIP1559(tx, ranges)
    THEN Threw(AssertionError("EIP1559"), <<>>)
    ELSE LET fields == FieldsEIP1559(tx, sig)
         IN  Returned(Undefined, fields, List(fields),
                      concatHex(2, toRlp(List(fields))))

serializeTransactionEIP2930(tx, sig, ranges) ==
    IF ~assertTransactionEIP2930(tx, ranges)
    THEN Threw(AssertionError("EIP2930"), <<>>)
    ELSE LET fields == FieldsEIP2930(tx, sig)
         IN  Returned(Undefined, fields, List(fields),
                      concatHex(1, toRlp(List(fields))))

\* serializeTransactionLegacy computing v before asserting the record
serializeTransactionLegacy_AssertLate(tx, sig, ranges) ==
    LET chainId == LegacyChainId(tx)
        base == BaseFieldsLegacy(tx)
    IN  IF sig # Undefined /\ LegacyV(chainId, Val(Val(sig).v)).threw
        THEN Threw(InvalidLegacyVError(Val(Val(sig).v)), base)
        ELSE IF ~assertTransactionLegacy(tx, ranges)
        THEN Threw(AssertionError("Legacy"), <<>>)
        ELSE LET v_ == IF sig # Undefined
                       THEN LegacyV(chainId, Val(Val(sig).v)).v ELSE 0
                 fields == base \o LegacyTail(chainId, sig, v_)
             IN  Returned(IF sig # Undefined THEN Def(v_) ELSE Undefined,
                          fields, List(fields), toRlp(List(fields)))

serializeTransactionLegacy(tx, sig, ranges) ==
    IF ~assertTransactionLegacy(tx, ranges)
    THEN Threw(AssertionError("Legacy"), <<>>)
    ELSE LET chainId == LegacyChainId(tx)
             base == BaseFieldsLegacy(tx)
         IN  IF sig # Undefined
             THEN LET lv == LegacyV(chainId, Val(Val(sig).v))
                  IN  IF lv.threw
                      THEN Threw(InvalidLegacyVError(lv.v), base)
                      ELSE LET fields == base \o LegacyTail(chainId, sig, lv.v)
                           IN  Returned(Def(lv.v), fields, List(fields),
                                        toRlp(List(fields)))
             ELSE LET fields == base \o LegacyTail(chainId, sig, 0)
                  IN  Returned(Undefined, fields, List(fields), toRlp(List(fields)))

\* Route with the eip1559 and eip2930 branches exchanged
Route_Swapped(t) ==
    IF t = "eip1559" THEN "eip2930"
    ELSE IF t = "eip2930" THEN "eip1559"
    ELSE IF t = "eip4844" THEN "eip4844"
    ELSE "legacy"

\* the if-cascade of serializeTransaction: the encoder a type is routed to
Route(t) ==
    IF t = "eip1559" THEN "eip1559"
    ELSE IF t = "eip2930" THEN "eip2930"
    ELSE IF t = "eip4844" THEN "eip4844"
    ELSE "legacy"

serializeTransaction(tx, sig, ranges) ==
    LET enc == Route(getTransactionType(tx))
    IN  IF enc = "eip1559" THEN serializeTransactionEIP1559(tx, sig, ranges)
        ELSE IF enc = "eip2930" THEN serializeTransactionEIP2930(tx, sig, ranges)
        ELSE IF enc = "eip4844" THEN serializeTransactionEIP4844(tx, sig, ranges)
        ELSE serializeTransactionLegacy(tx, sig, ranges)

----------------------------------------------------------------------------
\* Inputs

SigR == <<0, 18, 52>>
SigS == <<0, 0, 86>>
OwnR == <<0, 171>>
OwnS == <<205>>
Address == <<0, 222, 173>>
Data == <<190, 239>>
StorageKey == <<0, 1>>
VersionedHash == <<1, 99>>
Blob == <<11, 12>>
Commitment == <<21>>
Proof == <<31>>

Option(S) == {Undefined} \cup {Def(x) : x \in S}

Types == Option({"legacy", "eip2930", "eip1559", "eip4844", "eip7702"})
ChainIds == Option(0..MaxChainId)
SigVs == {0, 1} \cup (26..MaxSigV)
YParities == Option({0, 1})
Quantities == Option({0, 300})

Signatures ==
    {[r |-> Def(SigR), s |-> Def(SigS), v |-> Def(n), yParity |-> y] :
        n \in SigVs, y \in YParities}

BaseTx ==
    [type |-> Undefined, chainId |-> Undefined,
     nonce |-> Undefined, gas |-> Undefined, value |-> Undefined,
     gasPrice |-> Undefined, maxFeePerGas |-> Undefined,
     maxPriorityFeePerGas |-> Undefined, maxFeePerBlobGas |-> Undefined,
     to |-> Undefined, data |-> Undefined, accessList |-> Undefined,
     blobVersionedHashes |-> Undefined,
     blobs |-> Undefined, kzgCommitments |-> Undefined, kzgProofs |-> Undefined,
     r |-> Undefined, s |-> Undefined, v |-> Undefined, yParity |-> Undefined]

AccessLists ==
    {Undefined, Def(<<>>),
     Def(<<[address |-> Address, storageKeys |-> <<StorageKey, StorageKey>>]>>)}

\* records signed by the signature argument
SignedInputs ==
    {<<[BaseTx EXCEPT !.type = t, !.chainId = c, !.blobVersionedHashes = b,
                      !.r = own[1], !.s = own[2], !.v = own[3], !.yParity = own[4]],
       sig, ok>> :
        t \in Types, c \in ChainIds, b \in Option({<<VersionedHash>>}),
        own \in {<<Undefined, Undefined, Undefined, Undefined>>,
                 <<Def(OwnR), Def(OwnS), Def(28), Def(1)>>},
        sig \in Option(Signatures), ok \in BOOLEAN}

\* records carrying their own r, s, v, yParity
PreSignedInputs ==
    {<<[BaseTx EXCEPT !.type = t, !.chainId = c, !.blobVersionedHashes = b,
                      !.r = r_, !.s = s_, !.v = v_, !.yParity = y],
       Undefined, TRUE>> :
        t \in Types, c \in ChainIds, b \in Option({<<VersionedHash>>}),
        r_ \in Option({OwnR}), s_ \in Option({OwnS}),
        v_ \in Option(SigVs), y \in YParities}

\* records with their optional fields absent, zero or set
FieldInputs ==
    {<<[BaseTx EXCEPT !.type = t, !.chainId = Def(1),
                      !.nonce = q[1], !.gas = q[2], !.value = q[3],
                      !.gasPrice = q[4], !.maxFeePerGas = q[5],
                      !.maxPriorityFeePerGas = q[6], !.maxFeePerBlobGas = q[7],
                      !.to = rest[1], !.data = rest[2], !.accessList = rest[3],
                      !.blobVersionedHashes = rest[4]],
       Undefined, TRUE>> :
        t \in Types,
        q \in Quantities \X Quantities \X Quantities \X Quantities
              \X Quantities \X Quantities \X Quantities,
        rest \in {<<Undefined, Undefined, Undefined, Undefined>>,
                  <<Undefined, Undefined, Undefined, Def(<<VersionedHash>>)>>,
                  <<Def(Address), Def(Data),
                    Def(<<[address |-> Address, storageKeys |-> <<StorageKey>>]>>),
                    Def(<<VersionedHash, VersionedHash>>)>>}}

\* blob records with and without the raw blob payloads
BlobInputs ==
    {<<[BaseTx EXCEPT !.type = t, !.chainId = c, !.accessList = al,
                      !.blobVersionedHashes = Def(<<VersionedHash>>),
                      !.blobs = side[1], !.kzgCommitments = side[2],
                      !.kzgProofs = side[3]],
       sig, TRUE>> :
        t \in {Undefined, Def("eip4844")}, c \in ChainIds, al \in AccessLists,
        side \in {<<Undefined, Undefined, Undefined>>,
                  <<Def(<<>>), Def(<<>>), Def(<<>>)>>,
                  <<Def(<<Blob, Blob>>), Def(<<Commitment, Commitment>>),
                    Def(<<Proof, Proof>>)>>},
        sig \in Option({[r |-> Def(SigR), s |-> Def(SigS), v |-> Def(28),
                         yParity |-> Undefined]})}

----------------------------------------------------------------------------
\* The call

Given(in) ==
    /\ transaction = in[1]
    /\ signature = in[2]
    /\ rangesOk = in[3]

Init ==
    /\ \/ \E in \in SignedInputs : Given(in)
       \/ \E in \in PreSignedInputs : Given(in)
       \/ \E in \in FieldInputs : Given(in)
       \/ \E in \in BlobInputs : Given(in)
    /\ pc = "serializeTransaction"
    /\ type = Undefined
    /\ v = Undefined
    /\ serializedTransaction = <<>>
    /\ rlpInput = Undefined
    /\ result = Undefined
    /\ error = NoError

\* const type = getTransactionType(transaction), then the if-cascade
Dispatch ==
    /\ pc = "serializeTransaction"
    /\ type' = Def(getTransactionType(transaction))
    /\ pc' = Route(getTransactionType(transaction))
    /\ UNCHANGED <<transaction, signature, rangesOk, v, serializedTransaction,
                   rlpInput, result, error>>

Finish(out) ==
    /\ error' = out.error
    /\ v' = out.v
    /\ serializedTransaction' = out.fields
    /\ rlpInput' = out.rlpInput
    /\ result' = out.result
    /\ pc' = IF out.error = NoError THEN "returned" ELSE "threw"
    /\ UNCHANGED <<transaction, signature, rangesOk, type>>

RunEIP1559 ==
    /\ pc = "eip1559"
    /\ Finish(serializeTransactionEIP1559(transaction, signature, rangesOk))

RunEIP2930 ==
    /\ pc = "eip2930"
    /\ Finish(serializeTransactionEIP2930(transaction, signature, rangesOk))

RunEIP4844 ==
    /\ pc = "eip4844"
    /\ Finish(serializeTransactionEIP4844(transaction, signature, rangesOk))

RunLegacy ==
    /\ pc = "legacy"
    /\ Finish(serializeTransactionLegacy(transaction, signature, rangesOk))

Next == Dispatch \/ RunEIP1559 \/ RunEIP2930 \/ RunEIP4844 \/ RunLegacy

Spec == Init /\ [][Next]_vars

----------------------------------------------------------------------------
\* Properties

Finished == pc \in {"returned", "threw"}
RanLegacy == Finished /\ Route(Val(type)) = "legacy"
RanTyped == Finished /\ Route(Val(type)) \in {"eip1559", "eip2930", "eip4844"}
AssertionPassed == error.name \notin
    {"AssertTransactionError:Legacy", "AssertTransactionError:EIP2930",
     "AssertTransactionError:EIP1559", "AssertTransactionError:EIP4844"}
SigV == Val(Val(signature).v)

\* C1: a legacy record that passes validation, serialized with a signature and
\* an explicit chainId > 0, gets v = chainId*2 + 35 + (signature.v - 27) for
\* every signature.v, and that v is the seventh encoded field; chainId = 1 and
\* signature.v = 27 give 37.
C1_ExplicitChainIdV ==
    (RanLegacy /\ rangesOk /\ signature # Undefined /\ LegacyChainId(transaction) > 0)
    => /\ pc = "returned"
       /\ v = Def(Val(transaction.chainId) * 2 + 35 + (SigV - 27))
       /\ serializedTransaction[7] = Hex(ToBytes(Val(v)))
       /\ (transaction.chainId = Def(1) /\ SigV = 27)
             => serializedTransaction[7] = Hex(<<37>>)

C1_Witness ==
    /\ pc = "returned" /\ type = Def("legacy") /\ signature # Undefined
    /\ transaction.chainId = Def(1) /\ SigV = 27
    /\ v = Def(37)

\* C2: a legacy record that passes validation, serialized with a signature,
\* chainId absent or 0 and signature.v >= 35: when (signature.v - 35) div 2 > 0
\* the encoded v is signature.v, otherwise it is 27 for signature.v = 35 and 28
\* for signature.v = 36.
C2_InferredChainIdV ==
    (RanLegacy /\ rangesOk /\ signature # Undefined
        /\ LegacyChainId(transaction) = 0 /\ SigV >= 35)
    => /\ pc = "returned"
       /\ (SigV - 35) \div 2 > 0 => v = Def(SigV)
       /\ (SigV - 35) \div 2 <= 0 => SigV \in {35, 36}
       /\ SigV = 35 => v = Def(27)
       /\ SigV = 36 => v = Def(28)
       /\ serializedTransaction[7] = Hex(<<Val(v)>>)

C2_Witness ==
    /\ pc = "returned" /\ Route(Val(type)) = "legacy" /\ signature # Undefined
    /\ LegacyChainId(transaction) = 0 /\ SigV = 36
    /\ v = Def(28)

\* C3: InvalidLegacyVError is raised exactly when a legacy record that passes
\* validation is serialized with a signature, chainId absent or 0,
\* signature.v < 35 and signature.v neither 27 nor 28; it carries signature.v;
\* and there signature.v of 27 or 28 is encoded as 27 or 28.
C3_InvalidLegacyV ==
    Finished =>
       /\ (error.name = "InvalidLegacyVError")
            <=> /\ Route(Val(type)) = "legacy"
                /\ rangesOk
                /\ signature # Undefined
                /\ LegacyChainId(transaction) = 0
                /\ SigV < 35
                /\ SigV \notin {27, 28}
       /\ error.name = "InvalidLegacyVError"
            => error.v = Def(SigV) /\ result = Undefined
       /\ (RanLegacy /\ rangesOk /\ signature # Undefined
              /\ LegacyChainId(transaction) = 0 /\ SigV \in {27, 28})
            => /\ v = Def(SigV)
               /\ serializedTransaction[7] = Hex(<<SigV>>)

C3_Witness ==
    /\ pc = "threw" /\ error.name = "InvalidLegacyVError" /\ error.v = Def(29)
    /\ transaction.chainId = Undefined

\* C4: every call is routed to the one encoder of its declared or inferred
\* type (legacy for any other type), and the output starts with 0x02 for
\* eip1559, 0x01 for eip2930, 0x03 for eip4844, and for legacy is the bare
\* list encoding, whose first byte is a list prefix (>= 0xc0), not a marker.
C4_RoutingAndMarker ==
    /\ (transaction.type # Undefined /\ type # Undefined) => type = transaction.type
    /\ pc \in {"eip1559", "eip2930", "eip4844", "legacy"}
         => pc = (IF Val(type) \in {"eip1559", "eip2930", "eip4844"}
                  THEN Val(type) ELSE "legacy")
    /\ pc = "returned"
         => /\ Val(type) = "eip1559" => Val(result)[1] = 2
            /\ Val(type) = "eip2930" => Val(result)[1] = 1
            /\ Val(type) = "eip4844" => Val(result)[1] = 3
            /\ Val(type) \notin {"eip1559", "eip2930", "eip4844"}
                 => /\ Val(result)[1] >= 192
                    /\ Val(result) = toRlp(List(serializedTransaction))
    /\ pc = "threw"
         => error.name \in
              {"InvalidLegacyVError",
               IF Val(type) = "eip1559" THEN "AssertTransactionError:EIP1559"
               ELSE IF Val(type) = "eip2930" THEN "AssertTransactionError:EIP2930"
               ELSE IF Val(type) = "eip4844" THEN "AssertTransactionError:EIP4844"
               ELSE "AssertTransactionError:Legacy"}

C4_Witness ==
    /\ pc = "returned" /\ type = Def("eip7702")
    /\ Val(result)[1] >= 192

\* the number of fields ahead of the signature tail
BaseArity(enc) ==
    IF enc = "eip4844" THEN 11
    ELSE IF enc = "eip1559" THEN 9
    ELSE IF enc = "eip2930" THEN 8
    ELSE 6

Source == IF signature # Undefined THEN Val(signature) ELSE transaction
TailOf(fields, enc) == SubSeq(fields, BaseArity(enc) + 1, Len(fields))

\* C5: in the signature tail of the typed variants, with no numeric yParity,
\* v = 0 or 27 gives the empty placeholder, v = 1 gives hex 1, and any other v
\* gives hex 1 when v - 27 is odd and the empty placeholder when it is even.
C5_ParityByOffset ==
    (RanTyped /\ pc = "returned"
        /\ Source.r # Undefined /\ Source.s # Undefined
        /\ Source.yParity = Undefined /\ Source.v # Undefined)
    => LET n == Val(Source.v)
           parity == TailOf(serializedTransaction, Route(Val(type)))[1]
       IN  /\ n \in {0, 27} => parity = Empty
           /\ n = 1 => parity = Hex(<<1>>)
           /\ (n \notin {0, 1, 27} /\ (n - 27) % 2 = 1) => parity = Hex(<<1>>)
           /\ (n \notin {0, 1, 27} /\ (n - 27) % 2 = 0) => parity = Empty

\* C6: the signature tail of the typed variants has zero or three fields
\* [parity, trimmed r, trimmed s]; it is read from the signature when one is
\* supplied and from the record only otherwise, never mixed; and it is empty
\* exactly when in that source r is undefined, or s is undefined, or both v
\* and yParity are undefined.
C6_SignatureTail ==
    (RanTyped /\ pc = "returned")
    => LET tail == TailOf(serializedTransaction, Route(Val(type)))
           src == IF signature # Undefined THEN Val(signature) ELSE transaction
       IN  /\ Len(tail) \in {0, 3}
           /\ (tail = <<>>)
                <=> \/ src.r = Undefined
                    \/ src.s = Undefined
                    \/ (src.v = Undefined /\ src.yParity = Undefined)
           /\ tail # <<>>
                => /\ tail[2] = Hex(StripZeros(Val(src.r)))
                   /\ tail[3] = Hex(StripZeros(Val(src.s)))
                   /\ src.yParity = Def(1) => tail[1] = Hex(<<1>>)
                   /\ (src.yParity = Undefined /\ src.v = Def(27)) => tail[1] = Empty
                   /\ (src.yParity = Undefined /\ src.v = Def(28)) => tail[1] = Hex(<<1>>)
           /\ signature # Undefined
                => tail[2] = Hex(<<18, 52>>) /\ tail[3] = Hex(<<86>>)

C6_Witness ==
    /\ pc = "returned" /\ type = Def("eip1559")
    /\ signature # Undefined /\ Val(signature).yParity = Undefined
    /\ Val(signature).v = Def(27)
    /\ transaction.r = Def(OwnR) /\ transaction.yParity = Def(1)
    /\ Len(serializedTransaction) = 12
    /\ serializedTransaction[10] = Empty

\* C7: a legacy record serialized without a signature gets exactly
\* [encoded chainId, empty, empty] appended to its six base fields when
\* chainId > 0 and nothing when chainId is absent or 0; with a signature it
\* gets exactly [encoded v, r, s], r and s as given.
C7_LegacyTail ==
    (RanLegacy /\ pc = "returned")
    => LET chainId == IF transaction.chainId = Undefined
                      THEN 0 ELSE Val(transaction.chainId)
       IN  /\ SubSeq(serializedTransaction, 1, 6) = BaseFieldsLegacy(transaction)
           /\ (signature = Undefined /\ chainId > 0)
                => /\ Len(serializedTransaction) = 9
                   /\ serializedTransaction[7] = Hex(<<chainId>>)
                   /\ serializedTransaction[8] = Empty
                   /\ serializedTransaction[9] = Empty
           /\ (signature = Undefined /\ chainId = 0)
                => Len(serializedTransaction) = 6
           /\ signature # Undefined
                => /\ Len(serializedTransaction) = 9
                   /\ serializedTransaction[7] = Hex(<<Val(v)>>)
                   /\ serializedTransaction[8] = Hex(Val(Val(signature).r))
                   /\ serializedTransaction[9] = Hex(Val(Val(signature).s))
                   /\ serializedTransaction[8] # Empty

C7_Witness ==
    /\ pc = "returned" /\ type = Def("legacy") /\ signature = Undefined
    /\ transaction.chainId = Def(2)
    /\ Len(serializedTransaction) = 9
    /\ serializedTransaction[7] = Hex(<<2>>)

\* C8: the blob encoder returns 0x03 followed by the encoding of
\* [fields, blobs, kzgCommitments, kzgProofs] when the record has blobs and of
\* the field list alone when it has none, and the field list (signature tail
\* included) is the one the same record gets in the other form.
C8_BlobWrapper ==
    (pc = "returned" /\ Route(Val(type)) = "eip4844")
    => LET input == Val(rlpInput)
           bare == [transaction EXCEPT !.blobs = Undefined,
                       !.kzgCommitments = Undefined, !.kzgProofs = Undefined]
           wrapped == [transaction EXCEPT !.blobs = Def(<<Blob>>),
                       !.kzgCommitments = Def(<<Commitment>>),
                       !.kzgProofs = Def(<<Proof>>)]
       IN  /\ Val(result)[1] = 3
           /\ Tail(Val(result)) = toRlp(input)
           /\ transaction.blobs # Undefined
                => /\ Len(input.val) = 4
                   /\ input.val[1] = List(serializedTransaction)
                   /\ input.val[2] = HexList(Val(transaction.blobs))
                   /\ input.val[3] = HexList(Val(transaction.kzgCommitments))
                   /\ input.val[4] = HexList(Val(transaction.kzgProofs))
           /\ transaction.blobs = Undefined
                => input = List(serializedTransaction)
           /\ serializeTransactionEIP4844(bare, signature, rangesOk).fields
                = serializedTransaction
           /\ serializeTransactionEIP4844(wrapped, signature, rangesOk).fields
                = serializedTransaction

C8_Witness ==
    /\ pc = "returned" /\ type = Def("eip4844")
    /\ transaction.blobs = Def(<<Blob, Blob>>)
    /\ signature # Undefined
    /\ Len(Val(rlpInput).val) = 4
    /\ Len(serializedTransaction) = 14

\* the position of each optional field in the field list of an encoder
NumericPositions(enc) ==
    IF enc = "eip4844"
    THEN {<<"nonce", 2>>, <<"maxPriorityFeePerGas", 3>>, <<"maxFeePerGas", 4>>,
          <<"gas", 5>>, <<"value", 7>>, <<"maxFeePerBlobGas", 10>>}
    ELSE IF enc = "eip1559"
    THEN {<<"nonce", 2>>, <<"maxPriorityFeePerGas", 3>>, <<"maxFeePerGas", 4>>,
          <<"gas", 5>>, <<"value", 7>>}
    ELSE IF enc = "eip2930"
    THEN {<<"nonce", 2>>, <<"gasPrice", 3>>, <<"gas", 4>>, <<"value", 6>>}
    ELSE {<<"nonce", 1>>, <<"gasPrice", 2>>, <<"gas", 3>>, <<"value", 5>>}

BytePositions(enc) ==
    IF enc \in {"eip4844", "eip1559"} THEN {<<"to", 6>>, <<"data", 8>>}
    ELSE IF enc = "eip2930" THEN {<<"to", 5>>, <<"data", 7>>}
    ELSE {<<"to", 4>>, <<"data", 6>>}

NumericFields ==
    {"nonce", "gas", "value", "gasPrice", "maxFeePerGas",
     "maxPriorityFeePerGas", "maxFeePerBlobGas"}

\* every field has its fixed position, whatever is populated
C9_FixedLayout ==
    LET enc == Route(Val(type))
        fields == serializedTransaction
    IN  /\ Len(fields) \in {BaseArity(enc), BaseArity(enc) + 3}
        /\ \A p \in NumericPositions(enc) :
              /\ transaction[p[1]] \in {Undefined, Def(0)} => fields[p[2]] = Empty
              /\ transaction[p[1]] = Def(300) => fields[p[2]] = Hex(<<1, 44>>)
        /\ \A p \in BytePositions(enc) :
              /\ transaction[p[1]] = Undefined => fields[p[2]] = Empty
              /\ transaction[p[1]] # Undefined
                    => fields[p[2]] = Hex(Val(transaction[p[1]]))

\* C9 as stated: the field list of each variant has a fixed arity and order
\* (legacy 6, access-list 8, priority-fee 9, blob 11, before the signature
\* tail), an absent or zero numeric field and an absent recipient or data are
\* the empty placeholder at their position, and a record with a numeric field
\* set to 0 serializes identically to the same record with the field absent.
C9_ZeroIsAbsent ==
    pc = "returned"
    => /\ C9_FixedLayout
       /\ \A f \in NumericFields :
             transaction[f] = Def(0)
             => serializeTransaction([transaction EXCEPT ![f] = Undefined],
                                     signature, TRUE).result = result

\* C9 amended: as above, but a record with a numeric field set to 0
\* serializes identically to the same record with the field absent when both
\* are routed to the same variant encoder and both pass its validation.
C9_ZeroIsAbsentSameVariant ==
    pc = "returned"
    => /\ C9_FixedLayout
       /\ \A f \in NumericFields :
             LET other == [transaction EXCEPT ![f] = Undefined]
             IN  (transaction[f] = Def(0)
                    /\ Route(getTransactionType(other)) = Route(Val(type)))
                 => serializeTransaction(other, signature, TRUE).result = result

C9_Witness ==
    /\ pc = "returned" /\ type = Def("eip4844")
    /\ transaction.type = Undefined
    /\ transaction.maxFeePerBlobGas = Def(0)
    /\ transaction.nonce = Def(0) /\ transaction.gas = Undefined
    /\ transaction.value = Def(300) /\ transaction.to = Undefined
    /\ Len(serializedTransaction) = 11

\* C10: in every encoder the assertion runs before any field is encoded: when
\* it fails the call throws the assertion's error with no field list and no
\* output, also for a legacy record whose signature v is invalid; and a call
\* that throws returns nothing.
C10_AssertionFirst ==
    Finished
    => LET enc == Route(Val(type))
           failed ==
              IF enc = "eip4844" THEN ~assertTransactionEIP4844(transaction, rangesOk)
              ELSE IF enc = "eip1559" THEN ~assertTransactionEIP1559(transaction, rangesOk)
              ELSE IF enc = "eip2930" THEN ~assertTransactionEIP2930(transaction, rangesOk)
              ELSE ~assertTransactionLegacy(transaction, rangesOk)
           variant ==
              IF enc = "eip4844" THEN "EIP4844"
              ELSE IF enc = "eip1559" THEN "EIP1559"
              ELSE IF enc = "eip2930" THEN "EIP2930"
              ELSE "Legacy"
       IN  /\ failed
                => /\ pc = "threw"
                   /\ error = AssertionError(variant)
                   /\ error.name # "InvalidLegacyVError"
                   /\ serializedTransaction = <<>>
                   /\ rlpInput = Undefined
                   /\ result = Undefined
           /\ ~failed => error.name \in {"none", "InvalidLegacyVError"}
           /\ pc = "threw" => result = Undefined /\ rlpInput = Undefined

C10_Witness ==
    /\ pc = "threw" /\ Route(Val(type)) = "legacy" /\ ~rangesOk
    /\ signature # Undefined /\ SigV = 29
    /\ transaction.chainId = Undefined
    /\ error.name = "AssertTransactionError:Legacy"

\* C11: a legacy record with an explicit chainId c > 0, serialized with any
\* signature for which the call returns, gets an encoded v that binds it to
\* that chain: (v - 35) div 2 = c, and v is 2c + 35 or 2c + 36, also when
\* signature.v is already EIP-155 encoded (2c + 35).
C11_ChainBinding ==
    (RanLegacy /\ pc = "returned" /\ signature # Undefined
        /\ LegacyChainId(transaction) > 0)
    => LET c == Val(transaction.chainId)
       IN  /\ (Val(v) - 35) \div 2 = c
           /\ Val(v) \in {2 * c + 35, 2 * c + 36}
           /\ serializedTransaction[7] = Hex(<<Val(v)>>)

====
